---- MODULE Spec2Model ----
(***************************************************************************)
(* Command lifecycle of labctl (cmd/labctl/command/common.go).             *)
(*                                                                         *)
(* A cli.App carries a Before hook, an After hook, a tree of commands and  *)
(* a Metadata map.  AttachAppContext, AttachAppPrinter and AttachAppClient *)
(* rewrite hooks of the app; the host runtime (urfave/cli) then runs one   *)
(* invocation: for every node on the invoked path the node's After is      *)
(* deferred and its Before is run, the action handler of the last node is  *)
(* run, and the deferred After hooks run while the call stack unwinds.     *)
(*                                                                         *)
(* Hooks are closures in the source; here a hook is a record that names    *)
(* the closure and holds what it captured, and RunHook interprets it.      *)
(***************************************************************************)
EXTENDS Integers, Sequences, FiniteSets, TLC

\* ------------------------------------------------------------------ bounds
MaxCmds == 2        \* top-level commands of the app
MaxSubs == 2        \* subcommands of a top-level command
MaxSubSubs == 1     \* subcommands of a subcommand
MaxArgs == 3        \* positional arguments of a command line

\* ------------------------------------------------------------------ values
Keys == {"context", "printer", "client"}

\* Values of the global flags an invocation may carry.
LogLevels == {"debug", "info", "loud"}
LogWriters == {"console", "json", "tee"}
Outputs == {"unix", "json", ""}

\* Values of the JAEGER_TRACE environment variable: unset, an address
\* jaeger.NewUDPTransport accepts, an address it rejects.
TraceAddrs == {"", "collector:6831", "::bad::"}

\* error values; NoErr is Go's nil error
Err(kind, at) == [kind |-> kind, at |-> at]
NoErr == Err("nil", <<>>)

\* a capability stored in Metadata: its dynamic type and its content
Val(type, v) == [type |-> type, v |-> v]

\* ------------------------------------------------------------------- hooks
\* cli.BeforeFunc / cli.AfterFunc values.  NilHook is Go's nil func.
NilHook == [kind |-> "nil"]
\* a hook the application author installed before instrumentation
UserHook(which, at) == [kind |-> "user", which |-> which, at |-> at]

\* OutputUnix / OutputJSON
OutputUnix == "unix"
OutputJSON == "json"

\* zerolog.ParseLevel: the level names it accepts
ParseLevelOk(level) == level \in {"debug", "info", "warn", "error", "fatal", "panic", ""}

\* newLogger accepting any log level
newLoggerAnyLevel(flags) ==
    IF flags.logWriter \notin {"console", "json"}
    THEN [err |-> Err("unknown log writer", <<>>), writer |-> "nil"]
    ELSE [err |-> NoErr, writer |-> flags.logWriter]

\* newLogger(c): the log writer is selected first, then the level is parsed.
newLogger(flags) ==
    IF flags.logWriter \notin {"console", "json"}
    THEN [err |-> Err("unknown log writer", <<>>), writer |-> "nil"]
    ELSE IF ~ParseLevelOk(flags.logLevel)
         THEN [err |-> Err("parse level", <<>>), writer |-> "nil"]
         ELSE [err |-> NoErr, writer |-> flags.logWriter]

\* getTracer: a jaeger tracer and its closer when JAEGER_TRACE is set (and
\* a panic when the transport cannot be built), else the no-op pair.
getTracer(addr) ==
    IF addr # ""
    THEN IF addr = "::bad::"
         THEN [panic |-> TRUE, tracer |-> "nil", closer |-> "nil"]
         ELSE [panic |-> FALSE, tracer |-> "jaeger", closer |-> "jaeger"]
    ELSE [panic |-> FALSE, tracer |-> "noop", closer |-> "nop"]

\* closerClose with a no-op closer that can fail like any other
closerCloseMayFail(closer, closeErr) ==
    IF closeErr THEN Err("Close", <<>>) ELSE NoErr

\* io.Closer.Close of the closer getTracer returned; (*nopCloser).Close
\* returns nil
closerClose(closer, closeErr) ==
    IF closer = "nop" THEN NoErr
    ELSE IF closeErr THEN Err("Close", <<>>) ELSE NoErr

\* ------------------------------------------------------- hook interpreter
\* What a hook run reads and writes: md is app.Metadata, span is the span
\* variable AttachAppContext's closures share (<<>> is a nil span, otherwise
\* <<name>>), log is the history of the invocation.
\* env is what the world outside decides during the run: the global flags,
\* the user hooks that return an error, whether httputil.NewClient and
\* closer.Close return an error.
Absent == Val("nil", "")
Ev(ev, arg, at) == [ev |-> ev, arg |-> arg, at |-> at]
Logged(st, e) == [st EXCEPT !.log = Append(@, e)]
Result(st, err) == [st |-> st, err |-> err]
\* a hook returns a non-nil error
Fail(st, err) == Result(Logged(st, Ev("failed", err.kind, err.at)), err)

\* SetMetadata as a write-once store would do it: a key that is already
\* set keeps its value
SetMetadataOnce(st, key, value) ==
    IF st.md[key] # Absent
    THEN Logged(st, Ev("set", key, <<>>))
    ELSE [Logged(st, Ev("set", key, <<>>)) EXCEPT !.md[key] = value]

\* c.App.Metadata[key] = value: a plain Go map assignment
SetMetadata(st, key, value) ==
    [Logged(st, Ev("set", key, <<>>)) EXCEPT !.md[key] = value]

\* a hook of the application author: succeeds or fails as the world decides
userHook(h, st, env) ==
    LET s1 == Logged(st, Ev("user", h.which, h.at))
    IN  IF h \in env.failing THEN Fail(s1, Err(h.which, h.at)) ELSE Result(s1, NoErr)

\* printerHook taking every output other than "json" for "unix"
printerHookDefaultsToUnix(st, env) ==
    LET s1 == Logged(st, Ev("printerHook", "", <<>>))
    IN  IF env.flags.output = OutputJSON
        THEN Result(SetMetadata(s1, "printer", Val("printer", "json")), NoErr)
        ELSE Result(SetMetadata(s1, "printer", Val("printer", "unix")), NoErr)

\* the closure AttachAppPrinter appends to app.Before
printerHook(st, env) ==
    LET s1 == Logged(st, Ev("printerHook", "", <<>>))
        output == env.flags.output
    IN
    IF output = OutputUnix
    THEN Result(SetMetadata(s1, "printer", Val("printer", "unix")), NoErr)
    ELSE IF output = OutputJSON
         THEN Result(SetMetadata(s1, "printer", Val("printer", "json")), NoErr)
         ELSE Fail(s1, Err("output is not valid", <<>>))

\* clientHook building the logger whatever the log level is
clientHookAlwaysLogs(st, env) ==
    LET s1 == Logged(st, Ev("clientHook", "", <<>>))
        lg == newLogger(env.flags)
    IN  IF lg.err # NoErr
        THEN Fail(s1, lg.err)
        ELSE IF env.clientErr
             THEN Fail(s1, Err("NewClient", <<>>))
             ELSE Result(SetMetadata(s1, "client", Val("client", "logged")), NoErr)

\* the closure AttachAppClient appends to app.Before
clientHook(st, env) ==
    LET s1 == Logged(st, Ev("clientHook", "", <<>>))
        debug == env.flags.logLevel = "debug"
        lg == newLogger(env.flags)
    IN  IF debug /\ lg.err # NoErr
        THEN Fail(s1, lg.err)
        ELSE IF env.clientErr
             THEN Fail(s1, Err("NewClient", <<>>))
             ELSE Result(SetMetadata(s1, "client",
                                     Val("client", IF debug THEN "logged" ELSE "plain")),
                         NoErr)

\* the part of the wrapped subcommand Before that follows the existing
\* hook: start the span, build the logger, publish the context
tracingHook(name, st, env) ==
    LET s1 == [Logged(st, Ev("StartSpan", "", name)) EXCEPT !.span = <<name>>]
        lg == newLogger(env.flags)
    IN  IF lg.err # NoErr
        THEN Fail(s1, lg.err)
        ELSE Result(SetMetadata(s1, "context", Val("context", name)), NoErr)

\* teardown closing the reporter only when there is a span to finish
teardownOnlyWithSpan(closer, st, env) ==
    IF st.span = <<>>
    THEN Result(st, NoErr)
    ELSE LET s2 == Logged(Logged(st, Ev("Finish", "", st.span[1])), Ev("Close", "", <<>>))
             err == closerClose(closer, env.closeErr)
         IN  IF err # NoErr THEN Fail(s2, err) ELSE Result(s2, NoErr)

\* the part of the wrapped app After that follows the existing hook:
\* finish the span if there is one, close the reporter
teardown(closer, st, env) ==
    LET s1 == IF st.span # <<>> THEN Logged(st, Ev("Finish", "", st.span[1])) ELSE st
        s2 == Logged(s1, Ev("Close", "", <<>>))
        err == closerClose(closer, env.closeErr)
    IN  IF err # NoErr THEN Fail(s2, err) ELSE Result(s2, NoErr)

RECURSIVE RunHook(_, _, _)
RECURSIVE joinBeforeLoop(_, _, _)

RECURSIVE joinBeforeNoStop(_, _, _)
\* joinBeforeLoop without the early return: every hook runs, the first
\* error is returned at the end
joinBeforeNoStop(fns, st, env) ==
    IF fns = <<>>
    THEN Result(st, NoErr)
    ELSE IF Head(fns) = NilHook
         THEN joinBeforeNoStop(Tail(fns), st, env)
         ELSE LET r == RunHook(Head(fns), st, env)
                  rest == joinBeforeNoStop(Tail(fns), r.st, env)
              IN  IF r.err # NoErr THEN Result(rest.st, r.err) ELSE rest

RECURSIVE joinBeforeStopsAtNil(_, _, _)
\* joinBeforeLoop taking a nil hook for the end of the chain
joinBeforeStopsAtNil(fns, st, env) ==
    IF fns = <<>> \/ Head(fns) = NilHook
    THEN Result(st, NoErr)
    ELSE LET r == RunHook(Head(fns), st, env)
         IN  IF r.err # NoErr
             THEN r
             ELSE joinBeforeStopsAtNil(Tail(fns), r.st, env)

\* joinBefore's closure: the loop over fns
joinBeforeLoop(fns, st, env) ==
    IF fns = <<>>
    THEN Result(st, NoErr)
    ELSE IF Head(fns) = NilHook
         THEN joinBeforeLoop(Tail(fns), st, env)
         ELSE LET r == RunHook(Head(fns), st, env)
              IN  IF r.err # NoErr
                  THEN r
                  ELSE joinBeforeLoop(Tail(fns), r.st, env)

\* contextBefore starting the span and publishing the context before it
\* calls the existing hook
contextBeforeTracingFirst(h, st, env) ==
    LET r == tracingHook(h.name, st, env)
    IN  IF r.err # NoErr
        THEN r
        ELSE IF h.before # NilHook THEN RunHook(h.before, r.st, env) ELSE r

\* the closure AttachAppContext installs as a subcommand's Before
contextBefore(h, st, env) ==
    LET r == IF h.before # NilHook THEN RunHook(h.before, st, env) ELSE Result(st, NoErr)
    IN  IF r.err # NoErr
        THEN r
        ELSE tracingHook(h.name, r.st, env)

\* contextAfter running the teardown whatever the existing hook returned,
\* and returning the teardown's result
contextAfterLastWins(h, st, env) ==
    LET r == IF h.after # NilHook THEN RunHook(h.after, st, env) ELSE Result(st, NoErr)
    IN  teardown(h.closer, r.st, env)

\* the closure AttachAppContext installs as app.After
contextAfter(h, st, env) ==
    LET r == IF h.after # NilHook THEN RunHook(h.after, st, env) ELSE Result(st, NoErr)
    IN  IF r.err # NoErr
        THEN r
        ELSE teardown(h.closer, r.st, env)

\* calling a non-nil hook value
RunHook(h, st, env) ==
    CASE h.kind = "user" -> userHook(h, st, env)
      [] h.kind = "printer" -> printerHook(st, env)
      [] h.kind = "client" -> clientHook(st, env)
      [] h.kind = "join" -> joinBeforeLoop(h.fns, st, env)
      [] h.kind = "contextBefore" -> contextBefore(h, st, env)
      [] h.kind = "contextAfter" -> contextAfter(h, st, env)

\* the user hooks a hook may call
RECURSIVE UserHooksOf(_)
UserHooksOf(h) ==
    CASE h.kind = "user" -> {h}
      [] h.kind = "join" ->
            UNION {UserHooksOf(h.fns[i]) : i \in DOMAIN h.fns}
      [] h.kind = "contextBefore" -> UserHooksOf(h.before)
      [] h.kind = "contextAfter" -> UserHooksOf(h.after)
      [] OTHER -> {}

\* --------------------------------------------------------- instrumentation
\* joinBefore(fns...)
joinBefore(fns) == [kind |-> "join", fns |-> fns]

\* the closure of lines 54-74 over (before, name, tracer)
WrappedBefore(subcmd, tracer) ==
    [kind |-> "contextBefore", before |-> subcmd.Before, name |-> subcmd.Name,
     tracer |-> tracer]

\* the closure of lines 80-91 over (after, closer)
WrappedAfter(after, closer) ==
    [kind |-> "contextAfter", after |-> after, closer |-> closer]

\* InstrumentCommands wrapping only the subcommands that have no
\* subcommands of their own
InstrumentLeaves(cmds, tracer) ==
    [i \in DOMAIN cmds |->
        [cmds[i] EXCEPT !.Subcommands =
            [j \in DOMAIN cmds[i].Subcommands |->
                IF cmds[i].Subcommands[j].Subcommands = <<>>
                THEN [cmds[i].Subcommands[j] EXCEPT
                         !.Before = [kind |-> "contextBefore",
                                     before |-> cmds[i].Subcommands[j].Before,
                                     name |-> cmds[i].Subcommands[j].Name,
                                     tracer |-> tracer]]
                ELSE cmds[i].Subcommands[j]]]]

\* the two loops of AttachAppContext: every subcommand of every command of
\* the app gets the wrapped Before
InstrumentCommands(cmds, tracer) ==
    [i \in DOMAIN cmds |->
        [cmds[i] EXCEPT !.Subcommands =
            [j \in DOMAIN cmds[i].Subcommands |->
                [cmds[i].Subcommands[j] EXCEPT
                    !.Before = WrappedBefore(cmds[i].Subcommands[j], tracer)]]]]

\* AppWithContext leaving an app alone when no command of it has a
\* subcommand
AppWithContextNoOp(a, t) ==
    IF \A i \in DOMAIN a.Commands : a.Commands[i].Subcommands = <<>>
    THEN a
    ELSE [a EXCEPT !.Commands = InstrumentCommands(a.Commands, t.tracer),
                   !.After = WrappedAfter(a.After, t.closer)]

\* AttachAppContext(ctx, app) once getTracer has returned t
AppWithContext(a, t) ==
    [a EXCEPT !.Commands = InstrumentCommands(a.Commands, t.tracer),
              !.After = WrappedAfter(a.After, t.closer)]

\* AttachAppPrinter(app)
AppWithPrinter(a) ==
    [a EXCEPT !.Before = joinBefore(<<a.Before, [kind |-> "printer"]>>)]

\* AttachAppClient(app)
AppWithClient(a) ==
    [a EXCEPT !.Before = joinBefore(<<a.Before, [kind |-> "client"]>>)]

\* ------------------------------------------------------------ command tree
\* cli.Command: Name, Before, After, Subcommands.  A command is named by
\* its position in the tree.
Command(at, hooked, subs) ==
    [Name |-> at,
     Before |-> IF hooked THEN UserHook("Before", at) ELSE NilHook,
     After |-> IF hooked THEN UserHook("After", at) ELSE NilHook,
     Subcommands |-> subs]

\* The trees an app is built with: nCmds commands, the first with nSubs
\* subcommands, the first of these with nSubSubs subcommands of its own.
Tree(nCmds, nSubs, nSubSubs, hooked) ==
    [i \in 1..nCmds |->
        IF i = 1
        THEN Command(<<1>>, hooked,
                [j \in 1..nSubs |->
                    IF j = 1
                    THEN Command(<<1, 1>>, hooked,
                            [k \in 1..nSubSubs |-> Command(<<1, 1, k>>, hooked, <<>>)])
                    ELSE Command(<<1, j>>, hooked, <<>>)])
        ELSE Command(<<i>>, hooked, <<>>)]

Trees ==
    {Tree(n, s, t, hooked) :
        n \in 0..MaxCmds, s \in 0..MaxSubs, t \in 0..MaxSubSubs, hooked \in BOOLEAN}

\* the largest of them: it has a command without subcommands, a subcommand
\* without and one with subcommands of its own
FullTrees ==
    {Tree(MaxCmds, MaxSubs, MaxSubSubs, hooked) : hooked \in BOOLEAN}

\* app.Metadata as the caller may hand it over: empty, or already holding
\* values of the caller's own under the capability keys
Metadatas ==
    {[k \in Keys |-> IF preset THEN Val("string", "preset") ELSE Absent] :
        preset \in BOOLEAN}

\* the apps main may build: with or without hooks of its own on the app,
\* with or without hooks of its own on the commands
Apps ==
    {[Before |-> IF hooked THEN UserHook("Before", <<>>) ELSE NilHook,
      After |-> IF hooked THEN UserHook("After", <<>>) ELSE NilHook,
      Commands |-> t, Metadata |-> m] :
        hooked \in BOOLEAN, t \in Trees, m \in Metadatas}

\* ------------------------------------------------------------------- state
VARIABLES
    app,        \* the cli.App: Before, After, Commands, Metadata
    built,      \* the app as its author built it, before any Attach call
    span,       \* AttachAppContext's span variable: <<>> (nil) or <<name>>
    traceAddr,  \* the JAEGER_TRACE environment variable
    attached,   \* the Attach functions main has applied
    pc,         \* "main", "before", "action", "after", "done", "crashed"
    path,       \* the commands the command line names, outermost first
    flags,      \* the global flags of the command line
    depth,      \* how many commands of path the runtime has entered
    errs,       \* the error App.Run is about to return (<<>> is nil)
    afterErr,   \* what app.After returned: <<>> before it has, then <<err>>
    panicking,  \* a panic is unwinding the stack
    act,        \* the action handler being run, step by step (see NoAct)
    join,       \* three hooks and what joinBefore makes of them (see NoJoin)
    log         \* what has run in this invocation, in order

vars == <<app, built, span, traceAddr, attached, pc, path, flags, depth, errs,
          afterErr, panicking, act, join, log>>

NoFlags == [logLevel |-> "", logWriter |-> "", output |-> ""]
FlagSets == [logLevel : LogLevels, logWriter : LogWriters, output : Outputs]

\* An action handler under way: fn is the handler, nargs is c.NArg(), pc is
\* the call it makes next ("returned" and "panicked" end it), calls is
\* what it has called with the outcome, ret is the error it returned.
NoAct == [fn |-> "none", nargs |-> 0, pc |-> "idle", calls |-> <<>>, ret |-> NoErr]

\* Three hooks handed to joinBefore: fns are the hooks, failing and
\* clientErr say which of them return an error, out holds, for each way of
\* grouping the three, what running the joined hook gave (<<>> before it
\* has run).
NoJoin == [fns |-> <<>>, failing |-> {}, clientErr |-> FALSE, out |-> <<>>]

\* the state when main has built the app and has not yet instrumented it
Built(apps) ==
    /\ app \in apps
    /\ built = app
    /\ span = <<>>
    /\ traceAddr \in TraceAddrs
    /\ attached = {}
    /\ pc = "main"
    /\ path = <<>>
    /\ flags = NoFlags
    /\ depth = 0
    /\ errs = <<>>
    /\ afterErr = <<>>
    /\ panicking = FALSE
    /\ act = NoAct
    /\ join = NoJoin
    /\ log = <<>>

Init == Built({a \in Apps : a.Commands \in FullTrees})

\* ------------------------------------------------------------ host runtime
\* The app seen as the root node of the tree.
Root(a) == [Name |-> <<>>, Before |-> a.Before, After |-> a.After,
            Subcommands |-> a.Commands]

RECURSIVE NodeAt(_, _)
\* the node a path of command positions leads to
NodeAt(node, p) ==
    IF p = <<>> THEN node ELSE NodeAt(node.Subcommands[Head(p)], Tail(p))

RECURSIVE PathsUnder(_, _)
\* every path of the tree below node
PathsUnder(node, prefix) ==
    {prefix} \cup
    UNION {PathsUnder(node.Subcommands[i], Append(prefix, i)) :
              i \in DOMAIN node.Subcommands}

\* the node the runtime is at
Current == NodeAt(Root(app), SubSeq(path, 1, depth))

State == [md |-> app.Metadata, span |-> span, log |-> log]
Env(failing, clientErr, closeErr) ==
    [flags |-> flags, failing |-> failing, clientErr |-> clientErr,
     closeErr |-> closeErr]

\* calling a hook field of a node: the runtime skips a nil hook
Call(h, st, env) == IF h = NilHook THEN Result(st, NoErr) ELSE RunHook(h, st, env)

\* TypeAssert in the two-value form, which never panics
TypeAssertOk(md, key, type) == [panic |-> FALSE, value |-> md[key]]

\* CommandContext / CommandPrinter / CommandClient: a single-value type
\* assertion on c.App.Metadata[key], which panics unless the stored value
\* has the asserted type (a missing key yields the nil interface)
TypeAssert(md, key, type) == [panic |-> md[key].type # type, value |-> md[key]]
CommandContext(md) == TypeAssert(md, "context", "context")
CommandPrinter(md) == TypeAssert(md, "printer", "printer")
CommandClient(md) == TypeAssert(md, "client", "client")
Getter(md, key) ==
    CASE key = "context" -> CommandContext(md)
      [] key = "printer" -> CommandPrinter(md)
      [] key = "client" -> CommandClient(md)

\* ----------------------------------------------------------------- actions
\* main applies AttachAppContext to the app, once
AttachAppContext ==
    /\ pc = "main"
    /\ "context" \notin attached
    /\ LET t == getTracer(traceAddr)
       IN  IF t.panic
           THEN /\ pc' = "crashed"
                /\ panicking' = TRUE
                /\ UNCHANGED <<app, attached>>
           ELSE /\ app' = AppWithContext(app, t)
                /\ attached' = attached \cup {"context"}
                /\ UNCHANGED <<pc, panicking>>
    /\ UNCHANGED <<act, join, built, span, traceAddr, path, flags, depth, errs, afterErr, log>>

\* main applies AttachAppPrinter to the app, once
AttachAppPrinter ==
    /\ pc = "main"
    /\ "printer" \notin attached
    /\ app' = AppWithPrinter(app)
    /\ attached' = attached \cup {"printer"}
    /\ UNCHANGED <<act, join, built, span, traceAddr, pc, path, flags, depth, errs, afterErr, panicking, log>>

\* main applies AttachAppClient to the app, once
AttachAppClient ==
    /\ pc = "main"
    /\ "client" \notin attached
    /\ app' = AppWithClient(app)
    /\ attached' = attached \cup {"client"}
    /\ UNCHANGED <<act, join, built, span, traceAddr, pc, path, flags, depth, errs, afterErr, panicking, log>>

\* app.Run(os.Args): the command line names a path of the tree and sets
\* the global flags
Invoke ==
    /\ pc = "main"
    /\ attached = Keys
    /\ \E p \in PathsUnder(Root(app), <<>>), f \in FlagSets :
          /\ path' = p
          /\ flags' = f
    /\ pc' = "before"
    /\ depth' = 0
    /\ UNCHANGED <<act, join, app, built, span, traceAddr, attached, errs, afterErr, panicking, log>>

\* the runtime has deferred the After of the node it entered and calls the
\* node's Before; an error ends the descent, otherwise it enters the next
\* command of the path or, at the end of the path, runs the action
RunBefore ==
    /\ pc = "before"
    /\ \E failing \in SUBSET UserHooksOf(Current.Before), clientErr \in BOOLEAN :
          LET r == Call(Current.Before, State, Env(failing, clientErr, FALSE))
          IN  /\ app' = [app EXCEPT !.Metadata = r.st.md]
              /\ span' = r.st.span
              /\ log' = r.st.log
              /\ IF r.err # NoErr
                 THEN /\ errs' = <<r.err>>
                      /\ pc' = "after"
                      /\ depth' = depth
                 ELSE /\ errs' = errs
                      /\ IF depth < Len(path)
                         THEN pc' = "before" /\ depth' = depth + 1
                         ELSE pc' = "action" /\ depth' = depth
    /\ UNCHANGED <<act, join, built, traceAddr, attached, path, flags, afterErr, panicking>>

\* the action handler of the invoked command: it may read one capability
\* and then succeeds or fails; the app's own default action reads none
RunAction ==
    /\ pc = "action"
    /\ \E key \in Keys \cup {"none"}, fail \in BOOLEAN :
          LET reads == path # <<>> /\ key # "none"
              started == Append(log, Ev("action", "", path))
              got == IF reads THEN Append(started, Ev("get", key, path)) ELSE started
          IN  IF reads /\ Getter(app.Metadata, key).panic
              THEN /\ log' = Append(got, Ev("panic", key, path))
                   /\ panicking' = TRUE
                   /\ errs' = errs
              ELSE /\ log' = got
                   /\ panicking' = panicking
                   /\ errs' = IF fail THEN <<Err("action", path)>> ELSE errs
    /\ pc' = "after"
    /\ UNCHANGED <<act, join, app, built, span, traceAddr, attached, path, flags, depth, afterErr>>

\* the deferred After of the node at depth runs, also while a panic
\* unwinds; its error joins the one already there; then the runtime
\* returns to the enclosing node
RunAfter ==
    /\ pc = "after"
    /\ \E failing \in SUBSET UserHooksOf(Current.After), closeErr \in BOOLEAN :
          LET r == Call(Current.After, State, Env(failing, FALSE, closeErr))
          IN  /\ app' = [app EXCEPT !.Metadata = r.st.md]
              /\ span' = r.st.span
              /\ log' = r.st.log
              /\ errs' = IF r.err # NoErr THEN Append(errs, r.err) ELSE errs
              /\ afterErr' = IF depth = 0 THEN <<r.err>> ELSE afterErr
    /\ IF depth = 0
       THEN pc' = (IF panicking THEN "crashed" ELSE "done") /\ depth' = depth
       ELSE pc' = pc /\ depth' = depth - 1
    /\ UNCHANGED <<act, join, built, traceAddr, attached, path, flags, panicking>>

Next ==
    \/ AttachAppContext
    \/ AttachAppPrinter
    \/ AttachAppClient
    \/ Invoke
    \/ RunBefore
    \/ RunAction
    \/ RunAfter

Spec == Init /\ [][Next]_vars

\* Instrumentation alone, over every tree within the bounds.
InitAttach == Built(Apps)

NextAttach ==
    \/ AttachAppContext
    \/ AttachAppPrinter
    \/ AttachAppClient

SpecAttach == InitAttach /\ [][NextAttach]_vars

\* --------------------------------------------------------- action handlers
\* Each handler is a function of the outcome of the call it makes next: ok
\* says whether that call succeeds (for Healthcheck, whether it returns
\* true).  ResolveAgent and ResolveApp live outside this file; all that is
\* used of them is that they return a handle or an error.
Called(a, call, ok) == [a EXCEPT !.calls = Append(@, [call |-> call, ok |-> ok])]
Goto(a, next) == [a EXCEPT !.pc = next]
Return(a, err) == [a EXCEPT !.pc = "returned", !.ret = err]
\* ctx := CommandContext(c)
ReadContext(a, md, next) ==
    IF CommandContext(md).panic
    THEN Goto(Called(a, "CommandContext", FALSE), "panicked")
    ELSE Goto(Called(a, "CommandContext", TRUE), next)

\* updateAgentAction going on to the App although Update failed
updateAgentIgnoresUpdate(a, md, ok) ==
    CASE a.pc = "ResolveAgent" ->
            IF ok THEN Goto(Called(a, "ResolveAgent", ok), "CommandContext")
            ELSE Return(Called(a, "ResolveAgent", ok), Err("ResolveAgent", <<>>))
      [] a.pc = "CommandContext" -> ReadContext(a, md, "Update")
      [] a.pc = "Update" -> Goto(Called(a, "Update", ok), "ResolveApp")
      [] a.pc = "ResolveApp" ->
            IF ok THEN Goto(Called(a, "ResolveApp", ok), "Healthcheck")
            ELSE Return(Called(a, "ResolveApp", ok), Err("ResolveApp", <<>>))
      [] a.pc = "Healthcheck" ->
            IF ok THEN Return(Called(a, "Healthcheck", ok), NoErr)
            ELSE Return(Called(a, "Healthcheck", ok), Err("labapp unhealthy", <<>>))

\* updateAgentAction
updateAgentAction(a, md, ok) ==
    CASE a.pc = "ResolveAgent" ->
            IF ok THEN Goto(Called(a, "ResolveAgent", ok), "CommandContext")
            ELSE Return(Called(a, "ResolveAgent", ok), Err("ResolveAgent", <<>>))
      [] a.pc = "CommandContext" -> ReadContext(a, md, "Update")
      [] a.pc = "Update" ->
            IF ok THEN Goto(Called(a, "Update", ok), "ResolveApp")
            ELSE Return(Called(a, "Update", ok), Err("Update", <<>>))
      [] a.pc = "ResolveApp" ->
            IF ok THEN Goto(Called(a, "ResolveApp", ok), "Healthcheck")
            ELSE Return(Called(a, "ResolveApp", ok), Err("ResolveApp", <<>>))
      [] a.pc = "Healthcheck" ->
            IF ok THEN Return(Called(a, "Healthcheck", ok), NoErr)
            ELSE Return(Called(a, "Healthcheck", ok), Err("labapp unhealthy", <<>>))

\* peerInfoAction
peerInfoAction(a, md, ok) ==
    CASE a.pc = "ResolveApp" ->
            IF ok THEN Goto(Called(a, "ResolveApp", ok), "CommandContext")
            ELSE Return(Called(a, "ResolveApp", ok), Err("ResolveApp", <<>>))
      [] a.pc = "CommandContext" -> ReadContext(a, md, "PeerInfo")
      [] a.pc = "PeerInfo" ->
            IF ok THEN Goto(Called(a, "PeerInfo", ok), "MarshalIndent")
            ELSE Return(Called(a, "PeerInfo", ok), Err("PeerInfo", <<>>))
      [] a.pc = "MarshalIndent" ->
            IF ok THEN Return(Called(a, "MarshalIndent", ok), NoErr)
            ELSE Return(Called(a, "MarshalIndent", ok), Err("MarshalIndent", <<>>))

\* runTaskAction checking for at least two arguments instead of exactly two
runTaskAtLeastTwo(a, md, ok) ==
    CASE a.pc = "NArg" ->
            IF a.nargs < 2
            THEN Return(a, Err("task type and subject must be provided", <<>>))
            ELSE Goto(a, "ResolveApp")
      [] a.pc = "ResolveApp" ->
            IF ok THEN Goto(Called(a, "ResolveApp", ok), "CommandContext")
            ELSE Return(Called(a, "ResolveApp", ok), Err("ResolveApp", <<>>))
      [] a.pc = "CommandContext" -> ReadContext(a, md, "Run")
      [] a.pc = "Run" ->
            IF ok THEN Return(Called(a, "Run", ok), NoErr)
            ELSE Return(Called(a, "Run", ok), Err("Run", <<>>))

\* runTaskAction
runTaskAction(a, md, ok) ==
    CASE a.pc = "NArg" ->
            IF a.nargs # 2
            THEN Return(a, Err("task type and subject must be provided", <<>>))
            ELSE Goto(a, "ResolveApp")
      [] a.pc = "ResolveApp" ->
            IF ok THEN Goto(Called(a, "ResolveApp", ok), "CommandContext")
            ELSE Return(Called(a, "ResolveApp", ok), Err("ResolveApp", <<>>))
      [] a.pc = "CommandContext" -> ReadContext(a, md, "Run")
      [] a.pc = "Run" ->
            IF ok THEN Return(Called(a, "Run", ok), NoErr)
            ELSE Return(Called(a, "Run", ok), Err("Run", <<>>))

\* the handlers of debugCommand's subcommands and the first step of each
Handlers == {"updateAgentAction", "peerInfoAction", "runTaskAction"}
Entry(fn) ==
    CASE fn = "updateAgentAction" -> "ResolveAgent"
      [] fn = "peerInfoAction" -> "ResolveApp"
      [] fn = "runTaskAction" -> "NArg"

\* app.Metadata as the before hooks have left it when a handler starts:
\* "context" published (a subcommand), missing or the caller's own value
\* (a top-level command)
ActionMetadatas ==
    {[k \in Keys |->
        CASE k = "context" -> c
          [] k = "printer" -> Val("printer", "unix")
          [] k = "client" -> Val("client", "plain")] :
        c \in {Val("context", <<1, 1>>), Absent, Val("string", "preset")}}

\* The runtime calls a handler: the handlers are followed on their own,
\* from their first step.
InitActions ==
    /\ app \in {[Before |-> NilHook, After |-> NilHook, Commands |-> <<>>,
                 Metadata |-> m] : m \in ActionMetadatas}
    /\ built = app
    /\ span = <<>>
    /\ traceAddr = ""
    /\ attached = Keys
    /\ pc = "action"
    /\ path = <<>>
    /\ flags = NoFlags
    /\ depth = 0
    /\ errs = <<>>
    /\ afterErr = <<>>
    /\ panicking = FALSE
    /\ act \in {[fn |-> fn, nargs |-> n, pc |-> Entry(fn), calls |-> <<>>,
                  ret |-> NoErr] : fn \in Handlers, n \in 0..MaxArgs}
    /\ join = NoJoin
    /\ log = <<>>

Running == pc = "action" /\ act.pc \notin {"idle", "returned", "panicked"}
ActFrame ==
    UNCHANGED <<app, built, span, traceAddr, attached, pc, path, flags, depth, errs,
                afterErr, panicking, join, log>>

UpdateAgentStep ==
    /\ Running
    /\ act.fn = "updateAgentAction"
    /\ \E ok \in BOOLEAN : act' = updateAgentAction(act, app.Metadata, ok)
    /\ ActFrame

PeerInfoStep ==
    /\ Running
    /\ act.fn = "peerInfoAction"
    /\ \E ok \in BOOLEAN : act' = peerInfoAction(act, app.Metadata, ok)
    /\ ActFrame

RunTaskStep ==
    /\ Running
    /\ act.fn = "runTaskAction"
    /\ \E ok \in BOOLEAN : act' = runTaskAction(act, app.Metadata, ok)
    /\ ActFrame

NextActions ==
    \/ UpdateAgentStep
    \/ PeerInfoStep
    \/ RunTaskStep

SpecActions == InitActions /\ [][NextActions]_vars

\* ------------------------------------------------------------ hook chains
\* joinBefore applied to three hooks a, b, c in the three ways they can be
\* grouped
JoinShapes == {"left", "right", "flat"}
Joined(shape, fns) ==
    CASE shape = "left" -> joinBefore(<<joinBefore(<<fns[1], fns[2]>>), fns[3]>>)
      [] shape = "right" -> joinBefore(<<fns[1], joinBefore(<<fns[2], fns[3]>>)>>)
      [] shape = "flat" -> joinBefore(<<fns[1], fns[2], fns[3]>>)

\* the hooks that may stand at place i: nil, a hook of the author, and the
\* hooks AttachAppPrinter (second place) and AttachAppClient (third place)
\* append
JoinHooks(i) ==
    {NilHook, UserHook("Before", <<i>>)} \cup
    (IF i = 2 THEN {[kind |-> "printer"]} ELSE {}) \cup
    (IF i = 3 THEN {[kind |-> "client"]} ELSE {})

InitJoin ==
    /\ app \in {[Before |-> NilHook, After |-> NilHook, Commands |-> <<>>,
                 Metadata |-> [k \in Keys |-> Absent]]}
    /\ built = app
    /\ span = <<>>
    /\ traceAddr = ""
    /\ attached = {}
    /\ pc = "main"
    /\ path = <<>>
    /\ flags \in {NoFlags, [NoFlags EXCEPT !.output = OutputUnix]}
    /\ depth = 0
    /\ errs = <<>>
    /\ afterErr = <<>>
    /\ panicking = FALSE
    /\ act = NoAct
    /\ \E a \in JoinHooks(1), b \in JoinHooks(2), c \in JoinHooks(3) :
          \E failing \in SUBSET ({a, b, c} \cap {UserHook("Before", <<i>>) : i \in 1..3}),
             clientErr \in {FALSE, c.kind = "client"} :
                join = [fns |-> <<a, b, c>>, failing |-> failing,
                        clientErr |-> clientErr, out |-> [s \in JoinShapes |-> <<>>]]
    /\ log = <<>>

\* the three hooks are joined in one of the three ways and the joined hook
\* is called on the app as it was built
JoinAndRun ==
    /\ join.fns # <<>>
    /\ \E shape \in JoinShapes :
          /\ join.out[shape] = <<>>
          /\ join' = [join EXCEPT !.out[shape] =
                         <<Call(Joined(shape, join.fns), State,
                                Env(join.failing, join.clientErr, FALSE))>>]
    /\ UNCHANGED <<app, built, span, traceAddr, attached, pc, path, flags, depth, errs,
                   afterErr, panicking, act, log>>

NextJoin == JoinAndRun

SpecJoin == InitJoin /\ [][NextJoin]_vars

\* ------------------------------------------------------------------ claims
Has(e) == \E i \in DOMAIN log : log[i] = e
Count(ev) == Cardinality({i \in DOMAIN log : log[i].ev = ev})
\* app.Run has returned (or its panic has left it)
Completed == pc \in {"done", "crashed"} /\ attached = Keys
\* the errors a before hook can return
BeforeErrKinds ==
    {"Before", "output is not valid", "NewClient", "unknown log writer", "parse level"}
\* log[j] is the start of a before hook or of the command body
IsBeforeOrBody(j) ==
    \/ log[j].ev \in {"printerHook", "clientHook", "StartSpan", "set", "action", "get"}
    \/ log[j].ev = "user" /\ log[j].arg = "Before"
AfterFailed == Has(Ev("failed", "After", <<>>))
CloseFailed == Has(Ev("failed", "Close", <<>>))

\* C1: once a before hook has returned an error, no later before hook of
\* the invocation runs (neither the rest of its joinBefore chain, nor the
\* tracing hook behind an existing subcommand hook, nor the hooks of the
\* commands further down), the command body does not run, and the error
\* of that hook is the error of the invocation.
C1_FailFast ==
    \A i \in DOMAIN log :
        (log[i].ev = "failed" /\ log[i].arg \in BeforeErrKinds) =>
            /\ errs # <<>>
            /\ Head(errs) = Err(log[i].arg, log[i].at)
            /\ \A j \in (i + 1)..Len(log) : ~IsBeforeOrBody(j)

\* C1 witness: the printer hook failed in a chain that has the client hook
\* behind it, and the invocation has completed.
C1_Witness ==
    /\ pc = "done"
    /\ app.Before.fns[2].kind = "client"
    /\ Has(Ev("failed", "output is not valid", <<>>))

\* C2: when the invocation has completed, the teardown (whose last step is
\* the Close of the reporter) has run exactly once.
C2_TeardownExactlyOnce == Completed => Count("Close") = 1

\* C3: when the app's existing after hook has failed, the teardown has
\* still run by the end of the invocation.
C3_TeardownDespiteAfterError == (Completed /\ AfterFailed) => Has(Ev("Close", "", <<>>))

\* C4: the wrapped app After returns the existing hook's error if that
\* hook failed, else exactly what Close returned; it never returns nil
\* when one of its steps failed.
C4_FirstErrorWins ==
    afterErr # <<>> =>
        /\ AfterFailed => afterErr[1] = Err("After", <<>>)
        /\ ~AfterFailed =>
              afterErr[1] = (IF CloseFailed THEN Err("Close", <<>>) ELSE NoErr)
        /\ afterErr[1] = NoErr => (~AfterFailed /\ ~CloseFailed)

\* C4 witness: the existing after hook failed and the wrapped After has
\* returned.
C4_Witness == afterErr # <<>> /\ AfterFailed /\ built.After # NilHook

\* C5: at most one span is started in an invocation, and when the
\* invocation has completed every started span has been finished once.
C5_SpanFinishedOnce ==
    /\ Count("StartSpan") <= 1
    /\ Completed => Count("Finish") = Count("StartSpan")

\* C6: whenever an action handler reads a capability, the hook producing
\* it has published it earlier in the same invocation.
C6_ReadAfterProduce ==
    \A i \in DOMAIN log :
        log[i].ev = "get" =>
            \E j \in 1..(i - 1) : log[j] = Ev("set", log[i].arg, <<>>)

\* the commands of the tree, by position (an Attach call keeps the shape)
Commands == PathsUnder(Root(built), <<>>) \ {<<>>}
Was(p) == NodeAt(Root(built), p)
Now(p) == NodeAt(Root(app), p)
BeforeReplaced == {p \in Commands : Now(p).Before # Was(p).Before}
AfterReplaced == {p \in Commands : Now(p).After # Was(p).After}
\* subcommands that have no subcommands of their own
LeafSubcommands == {p \in Commands : Len(p) >= 2 /\ Was(p).Subcommands = <<>>}
\* the subcommands of the app's top-level commands
SecondLevel == {p \in Commands : Len(p) = 2}

\* C7 as stated: AttachAppContext replaces the Before of exactly the leaf
\* subcommands, of no node that has subcommands, and the After of the app
\* alone.
C7_LeafSubcommandsWrapped ==
    "context" \in attached =>
        /\ BeforeReplaced = LeafSubcommands
        /\ AfterReplaced = {}
        /\ app.After # built.After

\* C7 amended: AttachAppContext replaces the Before of exactly the
\* subcommands of the app's top-level commands, whether or not they have
\* subcommands of their own, each by the wrapper of the hook it had; it
\* replaces the After of the app by the wrapper of the After it had; it
\* changes no other Before or After of the tree.
C7_SecondLevelWrapped ==
    /\ "context" \in attached =>
          /\ BeforeReplaced = SecondLevel
          /\ \A p \in SecondLevel :
                /\ Now(p).Before.kind = "contextBefore"
                /\ Now(p).Before.before = Was(p).Before
          /\ AfterReplaced = {}
          /\ app.After.kind = "contextAfter"
          /\ app.After.after = built.After
          /\ attached = {"context"} => app.Before = built.Before
    /\ "context" \notin attached =>
          /\ BeforeReplaced = {}
          /\ AfterReplaced = {}
          /\ app.After = built.After

\* C7 witness: the instrumented tree has a subcommand with a subcommand
\* of its own, next to a subcommand without.
C7_Witness ==
    /\ "context" \in attached
    /\ \E p \in Commands : Len(p) = 3
    /\ \E p \in LeafSubcommands : Len(p) = 2

\* C8 as stated: a key of the capability map that is set keeps its value.
C8_WriteOnce ==
    [][\A k \in Keys :
          app.Metadata[k] # Absent => app'.Metadata[k] = app.Metadata[k]]_vars

\* C8 amended: the hooks of one invocation write each key at most once,
\* and a write is a plain assignment: whatever the key held before, it
\* holds the capability of the hook afterwards.
C8_WriteOverwrites ==
    \A k \in Keys :
        /\ Cardinality({i \in DOMAIN log : log[i] = Ev("set", k, <<>>)}) <= 1
        /\ Has(Ev("set", k, <<>>)) => app.Metadata[k].type = k

\* C8 witness: the printer hook has written the key "printer", which held
\* a value before the invocation.
C8_Witness ==
    /\ built.Metadata["printer"] # Absent
    /\ Has(Ev("set", "printer", <<>>))

\* C9 as stated: reading a capability never aborts the invocation.
C9_NoPanic == \A i \in DOMAIN log : log[i].ev # "panic"

\* C9 amended: a read of a key that is absent, or that holds a value of
\* another type, panics: the handler gets no error value, the invocation
\* is aborted; a read of a value of the expected type does not panic.
C9_BadReadPanics ==
    \A i \in DOMAIN log :
        log[i].ev = "get" =>
            LET bad == app.Metadata[log[i].arg].type # log[i].arg
                panics == i < Len(log) /\ log[i + 1] = Ev("panic", log[i].arg, log[i].at)
            IN  /\ bad <=> panics
                /\ bad => (panicking /\ pc # "done" /\ ~Has(Ev("failed", "action", path)))

\* C9 witness: a handler has read the key "context", which holds a value
\* of another type, and the invocation has ended.
C9_Witness ==
    /\ pc = "crashed"
    /\ Has(Ev("get", "context", path))
    /\ app.Metadata["context"].type = "string"

\* C10 as stated: the client hook either publishes "client" or fails
\* because httputil.NewClient failed.
C10_OnlyClientErrors ==
    \A i \in DOMAIN log :
        log[i].ev = "clientHook" =>
            /\ i < Len(log)
            /\ log[i + 1] \in {Ev("set", "client", <<>>), Ev("failed", "NewClient", <<>>)}

\* C10 amended: the client hook fails when log-level is "debug" and the
\* log-writer is not recognized, with the error of newLogger, and in that
\* case only; otherwise it fails only if httputil.NewClient fails, and
\* else publishes "client".
C10_ClientOrLoggerErrors ==
    \A i \in DOMAIN log :
        log[i].ev = "clientHook" =>
            LET badLogger == /\ flags.logLevel = "debug"
                             /\ flags.logWriter \notin {"console", "json"}
            IN  /\ i < Len(log)
                /\ badLogger => log[i + 1] = Ev("failed", "unknown log writer", <<>>)
                /\ ~badLogger =>
                      log[i + 1] \in {Ev("set", "client", <<>>),
                                      Ev("failed", "NewClient", <<>>)}

\* C10 witness: the client hook has run with log-level "debug" and an
\* unknown log-writer.
C10_Witness ==
    /\ Has(Ev("clientHook", "", <<>>))
    /\ flags.logLevel = "debug"
    /\ flags.logWriter = "tee"

\* the calls a handler has made, by name
CallsOf(call) == {i \in DOMAIN act.calls : act.calls[i].call = call}
UpdateOrder == <<"ResolveAgent", "CommandContext", "Update", "ResolveApp", "Healthcheck">>

\* C11: updateAgentAction makes its calls in the order ResolveAgent,
\* Update, ResolveApp, Healthcheck (reading "context" before Update);
\* Healthcheck is called only after a successful Update; a failed
\* ResolveAgent or Update is the last call and its error is returned; after
\* a successful Update the handler returns an error when Healthcheck is
\* false and nil when it is true.
C11_UpdateThenHealthcheck ==
    act.fn = "updateAgentAction" =>
        /\ Len(act.calls) <= Len(UpdateOrder)
        /\ \A i \in DOMAIN act.calls : act.calls[i].call = UpdateOrder[i]
        /\ \A i \in CallsOf("Healthcheck") :
              \E j \in 1..(i - 1) : act.calls[j] = [call |-> "Update", ok |-> TRUE]
        /\ \A i \in CallsOf("ResolveAgent") \cup CallsOf("Update") :
              ~act.calls[i].ok =>
                  /\ i = Len(act.calls)
                  /\ act.pc = "returned"
                  /\ act.ret = Err(act.calls[i].call, <<>>)
        /\ \A i \in CallsOf("Healthcheck") :
              /\ act.pc = "returned"
              /\ act.ret = (IF act.calls[i].ok THEN NoErr
                            ELSE Err("labapp unhealthy", <<>>))

\* C11 witness: Update succeeded, Healthcheck returned false, the handler
\* has returned.
C11_Witness ==
    /\ act.fn = "updateAgentAction"
    /\ act.pc = "returned"
    /\ \E i \in CallsOf("Update") : act.calls[i].ok
    /\ \E i \in CallsOf("Healthcheck") : ~act.calls[i].ok

\* C12: runTaskAction with a number of arguments other than two returns
\* the invalid-argument error without having resolved the App, read
\* "context" or called Run; with two arguments it resolves the App first,
\* calls Run at most once, exactly once when the App was resolved and
\* "context" read, and returns what Run returned.
C12_RunTaskArguments ==
    act.fn = "runTaskAction" =>
        /\ act.nargs # 2 =>
              /\ act.calls = <<>>
              /\ act.pc # "NArg" =>
                    /\ act.pc = "returned"
                    /\ act.ret = Err("task type and subject must be provided", <<>>)
        /\ act.nargs = 2 =>
              /\ Cardinality(CallsOf("Run")) <= 1
              /\ act.calls # <<>> => act.calls[1].call = "ResolveApp"
              /\ \A i \in CallsOf("Run") :
                    /\ act.pc = "returned"
                    /\ act.ret = (IF act.calls[i].ok THEN NoErr ELSE Err("Run", <<>>))
              /\ ( /\ act.pc = "returned"
                   /\ [call |-> "CommandContext", ok |-> TRUE] \in
                         {act.calls[i] : i \in DOMAIN act.calls} )
                 => Cardinality(CallsOf("Run")) = 1

\* C12 witness: runTaskAction has returned from a command line with more
\* than two arguments.
C12_Witness ==
    /\ act.fn = "runTaskAction"
    /\ act.nargs > 2
    /\ act.pc = "returned"

\* no command of the tree has a subcommand
NoSubcommands == \A p \in Commands : Len(p) = 1

\* C13 as stated: on a tree in which no command has a subcommand,
\* AttachAppContext changes no before hook and not the app's after hook,
\* and does not fail.
C13_NoSubcommandsNoOp ==
    NoSubcommands =>
        /\ pc # "crashed"
        /\ "context" \in attached =>
              /\ BeforeReplaced = {}
              /\ attached = {"context"} => app.Before = built.Before
              /\ app.After = built.After

\* C13 amended: on a tree in which no command has a subcommand,
\* AttachAppContext changes no before hook and no after hook of a command,
\* and it replaces the app's after hook by the wrapper that runs the after
\* hook the app had and then closes the closer getTracer returned; it
\* returns no error, and it panics, leaving the app as it was, exactly
\* when getTracer panics (JAEGER_TRACE set to an address the transport
\* rejects).
C13_OnlyAfterWrapped ==
    NoSubcommands =>
        /\ "context" \in attached =>
              /\ BeforeReplaced = {}
              /\ AfterReplaced = {}
              /\ attached = {"context"} => app.Before = built.Before
              /\ app.After = WrappedAfter(built.After, getTracer(traceAddr).closer)
              /\ ~getTracer(traceAddr).panic
        /\ pc = "crashed" =>
              /\ getTracer(traceAddr).panic
              /\ "context" \notin attached
              /\ app.After = built.After
              /\ app.Commands = built.Commands

\* C13 witness: AttachAppContext has been applied to an app that has
\* commands, none with a subcommand, and an after hook of its own.
C13_Witness ==
    /\ "context" \in attached
    /\ NoSubcommands
    /\ built.Commands # <<>>
    /\ built.After # NilHook

\* the hooks of a chain that are not nil, in order
NonNil(fns) == SelectSeq(fns, LAMBDA h : h # NilHook)
\* the hook h returns an error in the run join describes
HookFails(h) ==
    CASE h.kind = "user" -> h \in join.failing
      [] h.kind = "printer" -> flags.output \notin {"unix", "json"}
      [] h.kind = "client" ->
            \/ join.clientErr
            \/ flags.logLevel = "debug" /\ flags.logWriter \notin {"console", "json"}
\* the hooks a history shows to have been started, in order
HookOf(e) ==
    CASE e.ev = "user" -> UserHook(e.arg, e.at)
      [] e.ev = "printerHook" -> [kind |-> "printer"]
      [] e.ev = "clientHook" -> [kind |-> "client"]
StartedHooks(lg) ==
    LET starts == SelectSeq(lg, LAMBDA e : e.ev \in {"user", "printerHook", "clientHook"})
    IN  [i \in DOMAIN starts |-> HookOf(starts[i])]
FailedEvents(lg) == SelectSeq(lg, LAMBDA e : e.ev = "failed")

\* C14: joinBefore(joinBefore(a, b), c), joinBefore(a, joinBefore(b, c))
\* and joinBefore(a, b, c), called in the same state, give the same state
\* and the same result; each runs exactly the hooks of a, b, c that are not
\* nil, in this order, up to and including the first that fails, and
\* returns the error of that hook, or nil when none fails.  So a hook
\* appended by AttachAppPrinter or AttachAppClient runs only after the
\* hooks before it have run and succeeded.
C14_JoinAssociative ==
    \A s \in DOMAIN join.out :
        join.out[s] # <<>> =>
            LET r == join.out[s][1]
                hooks == NonNil(join.fns)
                ran == StartedHooks(r.st.log)
                failed == FailedEvents(r.st.log)
            IN  /\ \A t \in DOMAIN join.out : join.out[t] # <<>> => join.out[t] = join.out[s]
                /\ Len(ran) <= Len(hooks)
                /\ ran = SubSeq(hooks, 1, Len(ran))
                /\ \A i \in 1..(Len(ran) - 1) : ~HookFails(ran[i])
                /\ Len(ran) < Len(hooks) => HookFails(ran[Len(ran)])
                /\ IF ran # <<>> /\ HookFails(ran[Len(ran)])
                   THEN /\ r.err # NoErr
                        /\ failed = <<Ev("failed", r.err.kind, r.err.at)>>
                   ELSE /\ r.err = NoErr
                        /\ failed = <<>>

\* C14 witness: the three groupings have been run on a chain whose first
\* hook is nil, whose second hook succeeds and whose third hook, the one
\* AttachAppClient appends, fails.
C14_Witness ==
    /\ join.fns # <<>>
    /\ \A s \in JoinShapes : join.out[s] # <<>>
    /\ join.fns[1] = NilHook
    /\ join.fns[2] = UserHook("Before", <<2>>)
    /\ join.fns[3] = [kind |-> "client"]
    /\ join.out["left"][1].err = Err("NewClient", <<>>)

\* the runtime has called the Before of the second-level command p of the
\* invoked path and the call has returned: the app's chain has succeeded,
\* the hook of the command above p has not failed, and the descent is past p
WrappedBeforeReturned(p) ==
    /\ Len(path) >= 2
    /\ p = SubSeq(path, 1, 2)
    /\ Has(Ev("set", "printer", <<>>))
    /\ Has(Ev("set", "client", <<>>))
    /\ ~Has(Ev("failed", "Before", SubSeq(path, 1, 1)))
    /\ pc = "before" => depth > 2

\* C15: in the wrapped Before of a subcommand the hook the subcommand had
\* runs first and the tracing hook directly after it; when the existing
\* hook fails its error is the error of the invocation, no span is started
\* and "context" is not published; when the subcommand had no hook the
\* tracing hook runs alone.
C15_ExistingThenTracing ==
    /\ \A j \in DOMAIN log :
          (log[j].ev = "StartSpan" /\ Was(log[j].at).Before # NilHook) =>
              /\ j > 1
              /\ log[j - 1] = Ev("user", "Before", log[j].at)
    /\ \A p \in SecondLevel :
          WrappedBeforeReturned(p) =>
              /\ Was(p).Before = NilHook =>
                    /\ ~Has(Ev("user", "Before", p))
                    /\ Has(Ev("StartSpan", "", p))
              /\ Was(p).Before # NilHook => Has(Ev("user", "Before", p))
              /\ Has(Ev("failed", "Before", p)) =>
                    /\ errs # <<>>
                    /\ Head(errs) = Err("Before", p)
                    /\ Count("StartSpan") = 0
                    /\ span = <<>>
                    /\ ~Has(Ev("set", "context", <<>>))
                    /\ app.Metadata["context"] = built.Metadata["context"]
              /\ ~Has(Ev("failed", "Before", p)) => Has(Ev("StartSpan", "", p))

\* C15 witness: the existing hook of the invoked subcommand has failed and
\* the invocation has completed.
C15_Witness ==
    /\ pc = "done"
    /\ Len(path) >= 2
    /\ WrappedBeforeReturned(SubSeq(path, 1, 2))
    /\ Has(Ev("failed", "Before", SubSeq(path, 1, 2)))

\* C16: the tracing hook, once it has started the span, fails with the
\* error of newLogger when log-writer is neither "console" nor "json" or
\* log-level does not parse; then "context" is not published and "printer"
\* and "client", published by the app's hooks, stay as they were
\* published; with both values valid it publishes "context" and succeeds.
C16_TracingHookConfiguration ==
    \A j \in DOMAIN log :
        log[j].ev = "StartSpan" =>
            LET badWriter == flags.logWriter \notin {"console", "json"}
                badLevel == ~ParseLevelOk(flags.logLevel)
            IN  /\ j < Len(log)
                /\ badWriter => log[j + 1] = Ev("failed", "unknown log writer", <<>>)
                /\ (~badWriter /\ badLevel) => log[j + 1] = Ev("failed", "parse level", <<>>)
                /\ (badWriter \/ badLevel) =>
                      /\ errs # <<>>
                      /\ Head(errs) = Err(log[j + 1].arg, <<>>)
                      /\ ~Has(Ev("set", "context", <<>>))
                      /\ app.Metadata["context"] = built.Metadata["context"]
                      /\ app.Metadata["printer"] = Val("printer", flags.output)
                      /\ app.Metadata["client"].type = "client"
                /\ (~badWriter /\ ~badLevel) =>
                      /\ log[j + 1] = Ev("set", "context", <<>>)
                      /\ app.Metadata["context"] = Val("context", log[j].at)
                      /\ ~Has(Ev("failed", "unknown log writer", <<>>))
                      /\ ~Has(Ev("failed", "parse level", <<>>))

\* C16 witness: the tracing hook has failed on a log-level that does not
\* parse, after the app's hooks had published "printer" and "client", and
\* the invocation has completed.
C16_Witness ==
    /\ pc = "done"
    /\ Has(Ev("set", "client", <<>>))
    /\ Has(Ev("set", "printer", <<>>))
    /\ Count("StartSpan") = 1
    /\ Has(Ev("failed", "parse level", <<>>))

\* C17: the printer hook publishes "printer" exactly when output is
\* "unix" or "json", the unix printer for "unix" and the JSON printer for
\* "json"; for every other output, the empty one included, it returns the
\* invalid-output error and does not write the key, which holds what it
\* held when the invocation began.
C17_PrinterOutputs ==
    \A j \in DOMAIN log :
        log[j].ev = "printerHook" =>
            /\ j < Len(log)
            /\ flags.output = "unix" =>
                  /\ log[j + 1] = Ev("set", "printer", <<>>)
                  /\ app.Metadata["printer"] = Val("printer", "unix")
            /\ flags.output = "json" =>
                  /\ log[j + 1] = Ev("set", "printer", <<>>)
                  /\ app.Metadata["printer"] = Val("printer", "json")
            /\ flags.output \notin {"unix", "json"} =>
                  /\ log[j + 1] = Ev("failed", "output is not valid", <<>>)
                  /\ errs # <<>>
                  /\ Head(errs) = Err("output is not valid", <<>>)
                  /\ ~Has(Ev("set", "printer", <<>>))
                  /\ app.Metadata["printer"] = built.Metadata["printer"]

\* C17 witness: the printer hook has run with the empty output on an app
\* whose "printer" key was not set, and the invocation has completed.
C17_Witness ==
    /\ pc = "done"
    /\ flags.output = ""
    /\ Has(Ev("printerHook", "", <<>>))
    /\ built.Metadata["printer"] = Absent
    /\ app.Metadata["printer"] = Absent

\* C18: a span is finished only if it was started earlier in the
\* invocation, and it is the span of the invoked subcommand; the teardown
\* finishes the span when one was started and not otherwise, and closes
\* the reporter directly afterwards in either case; whenever the wrapped
\* After has got past the existing after hook, the reporter has been
\* closed, span or no span.
C18_TeardownSpanAndReporter ==
    /\ \A j \in DOMAIN log :
          log[j].ev = "Finish" =>
              /\ \E i \in 1..(j - 1) : log[i] = Ev("StartSpan", "", log[j].at)
              /\ Len(path) >= 2
              /\ log[j].at = SubSeq(path, 1, 2)
              /\ j < Len(log)
              /\ log[j + 1] = Ev("Close", "", <<>>)
    /\ \A j \in DOMAIN log :
          log[j].ev = "Close" =>
              /\ Count("StartSpan") = 0 => Count("Finish") = 0
              /\ Count("StartSpan") > 0 => (j > 1 /\ log[j - 1].ev = "Finish")
    /\ (afterErr # <<>> /\ ~AfterFailed) => Count("Close") = 1

\* C18 witness: the printer hook of the app has failed, so that no span
\* was started, and the teardown has closed the reporter.
C18_Witness ==
    /\ pc = "done"
    /\ Has(Ev("failed", "output is not valid", <<>>))
    /\ Count("StartSpan") = 0
    /\ Count("Finish") = 0
    /\ Has(Ev("Close", "", <<>>))

\* C19: with JAEGER_TRACE unset or empty, getTracer does not panic and
\* returns the no-op tracer and the no-op closer, which the wrapped hooks
\* capture; Close of that closer returns nil, so the close step of the
\* teardown never fails and the wrapped After returns nil whenever the
\* existing after hook has not failed.
C19_NoopTracerCloses ==
    traceAddr = "" =>
        /\ getTracer(traceAddr) = [panic |-> FALSE, tracer |-> "noop", closer |-> "nop"]
        /\ "context" \in attached =>
              /\ app.After.closer = "nop"
              /\ \A p \in SecondLevel : Now(p).Before.tracer = "noop"
        /\ pc = "crashed" => "context" \in attached
        /\ ~CloseFailed
        /\ (afterErr # <<>> /\ ~AfterFailed) =>
              /\ Has(Ev("Close", "", <<>>))
              /\ afterErr[1] = NoErr

\* C19 witness: with JAEGER_TRACE unset an invocation that started a span
\* has completed, its teardown having closed the reporter.
C19_Witness ==
    /\ traceAddr = ""
    /\ pc = "done"
    /\ Count("StartSpan") = 1
    /\ Has(Ev("Close", "", <<>>))
    /\ afterErr = <<NoErr>>

====
